---- MODULE Spec2Model ----
(***************************************************************************)
(* Model of dtwr/dtwPlot.py: the dispatcher dtwPlot and the renderers      *)
(* dtwPlotAlignment, dtwPlotTwoWay and dtwPlotThreeWay.                     *)
(*                                                                         *)
(* A behaviour is one call: Init draws the function called and its         *)
(* arguments, and the action of that function runs its whole body, leaving *)
(* what the caller observes: the outcome (return value or exception), the  *)
(* figure the plotting library holds, and the renderers the dispatcher     *)
(* invoked.                                                                *)
(*                                                                         *)
(* Python values are tagged records, so that None, an absent keyword, an   *)
(* integer and a sequence stay distinguishable as they are in the code.    *)
(* Python sequences are 0-based; PyAt converts.                            *)
(***************************************************************************)
EXTENDS Integers, Sequences, FiniteSets

VARIABLES fn, x, type, kwargs, pc, invoked, outcome, fig

vars == <<fn, x, type, kwargs, pc, invoked, outcome, fig>>

----------------------------------------------------------------------------
(* Bounds of the model *)

\* longest query / reference series
MaxLen == 4
\* offsets range over -MaxOff..MaxOff
MaxOff == 2
\* integer guide counts range over 0..MaxCount
MaxCount == 4

----------------------------------------------------------------------------
(* Python values *)

None == [tag |-> "None"]
\* a keyword the caller did not pass
Unset == [tag |-> "unset"]
\* an attribute the object does not have
Missing == [tag |-> "missing"]
IntV(n) == [tag |-> "int", v |-> n]
\* a list or array: the values that have __len__
ListV(s) == [tag |-> "list", v |-> s]
AxesPair(a, b) == [tag |-> "axes", v |-> <<a, b>>]
Exc(t, m) == [tag |-> "exc", type |-> t, msg |-> m]

PyAt(s, i) == s[i + 1]
InRange(s, i) == i >= 0 /\ i < Len(s)

Min2(a, b) == IF a <= b THEN a ELSE b
Max2(a, b) == IF a >= b THEN a ELSE b
SeqMin(s) == CHOOSE v \in {s[i] : i \in 1..Len(s)} : \A j \in 1..Len(s) : v <= s[j]
SeqMax(s) == CHOOSE v \in {s[i] : i \in 1..Len(s)} : \A j \in 1..Len(s) : v >= s[j]

Returned(v) == [kind |-> "return", value |-> v]
Raised(t, m) == [kind |-> "raise", value |-> Exc(t, m)]
Pending == [kind |-> "pending", value |-> None]

----------------------------------------------------------------------------
(* The plotting library's figure *)

\* The axes handles: "ax" is the primary one, "twin" the one ax.twinx() makes.
\* ylim holds each axes' visible vertical range; an axes with no data has the
\* library's default range.
DefaultLim == <<0, 1>>

NoFig ==
  [created |-> FALSE, twin |-> FALSE, lines |-> <<>>,
   ylim |-> [ax |-> DefaultLim, twin |-> DefaultLim],
   segments |-> <<>>, collections |-> 0, shown |-> FALSE]

\* plt.subplots(): a new figure with its primary axes
Subplots == [NoFig EXCEPT !.created = TRUE]

\* ax.twinx(): a second axes sharing the x axis
Twinx(f) == [f EXCEPT !.twin = TRUE]

LinesOn(f, a) == {i \in 1..Len(f.lines) : f.lines[i].axes = a}

\* the range autoscaling gives an axes: the extent of the data plotted on it
\* (the library's proportional margin is left out)
DataLim(f, a) ==
  IF LinesOn(f, a) = {} THEN DefaultLim
  ELSE LET lo == {SeqMin(f.lines[i].y) : i \in LinesOn(f, a)}
           hi == {SeqMax(f.lines[i].y) : i \in LinesOn(f, a)}
       IN <<CHOOSE v \in lo : \A w \in lo : v <= w,
            CHOOSE v \in hi : \A w \in hi : v >= w>>

\* axes.plot(xs, ys): both must have the same length, which the caller checks
\* before (the library raises ValueError otherwise); the axes autoscales
Plot(f, a, xs, ys) ==
  LET g == [f EXCEPT !.lines = Append(@, [axes |-> a, x |-> xs, y |-> ys])]
  IN [g EXCEPT !.ylim[a] = DataLim(g, a)]

GetYlim(f, a) == f.ylim[a]
SetYlim(f, a, lo, hi) == [f EXCEPT !.ylim[a] = <<lo, hi>>]

\* ax.add_collection(LineCollection(col))
AddCollection(f, col) ==
  [f EXCEPT !.segments = @ \o col, !.collections = @ + 1]

\* plt.show()
Show(f) == [f EXCEPT !.shown = TRUE]

\* the value a parameter takes: the keyword passed, else the default
Param(kw, name, default) ==
  IF kw[name].tag = "unset" THEN default ELSE kw[name]

----------------------------------------------------------------------------
(* dtwPlotTwoWay and dtwPlotThreeWay: the series to plot *)

\* what the except clause raises when d.query or d.reference is absent
MissingSeriesNoCatch == Raised("AttributeError", "object has no attribute")
MissingSeries == Raised("ValueError", "Original timeseries are required")

\* if xts is None or yts is None: both are taken from d, or the call raises
ResolveSeries(d, xts, yts) ==
  IF xts.tag = "None" \/ yts.tag = "None"
  THEN IF d.query.tag = "missing" \/ d.reference.tag = "missing"
       THEN [raised |-> TRUE, xts |-> xts, yts |-> yts]
       ELSE [raised |-> FALSE, xts |-> d.query, yts |-> d.reference]
  ELSE [raised |-> FALSE, xts |-> xts, yts |-> yts]

----------------------------------------------------------------------------
(* dtwPlotTwoWay: axes, limits and guides *)

\* numpy.arange(n)
Arange(n) == [i \in 1..n |-> i - 1]

\* ax2 = ax.twinx() if offset != 0 else ax
SecondaryAxisPositiveOnly(offset) == IF offset > 0 THEN "twin" ELSE "ax"
SecondaryAxis(offset) == IF offset # 0 THEN "twin" ELSE "ax"

\* the limits read back after plotting, moved apart by offset
ShiftLimitsSameSide(f, ax2, offset) ==
  LET q == GetYlim(f, "ax")
      r == GetYlim(f, ax2)
  IN IF offset > 0
     THEN SetYlim(SetYlim(f, "ax", q[1], q[2] + offset), ax2, r[1], r[2] + offset)
     ELSE IF offset < 0
     THEN SetYlim(SetYlim(f, "ax", q[1] + offset, q[2]), ax2, r[1] + offset, r[2])
     ELSE f

ShiftLimits(f, ax2, offset) ==
  LET q == GetYlim(f, "ax")
      r == GetYlim(f, ax2)
  IN IF offset > 0
     THEN SetYlim(SetYlim(f, "ax", q[1] - offset, q[2]), ax2, r[1], r[2] + offset)
     ELSE IF offset < 0
     THEN SetYlim(SetYlim(f, "ax", q[1], q[2] - offset), ax2, r[1] + offset, r[2])
     ELSE f

\* numpy.linspace's num when the caller gives none
LinspaceDefaultNum == 50

\* numpy.array(numpy.linspace(0, stop, num)).astype(int), for stop >= 0: num
\* values from 0 to stop inclusive, each truncated; a single value is the start
LinspaceNoEndpoint(stop, num) ==
  [i \in 1..num |-> ((i - 1) * stop) \div num]
Linspace(stop, num) ==
  [i \in 1..num |-> IF num = 1 THEN 0 ELSE ((i - 1) * stop) \div (num - 1)]

\* idx: the path positions that get a guide
GuideIndicesAllByDefault(match_indices, n) ==
  IF match_indices.tag = "None" THEN Arange(n)
  ELSE IF match_indices.tag = "int" THEN Linspace(n - 1, match_indices.v)
  ELSE match_indices.v

GuideIndices(match_indices, n) ==
  IF match_indices.tag = "None" THEN Linspace(n - 1, LinspaceDefaultNum)
  ELSE IF match_indices.tag = "int" THEN Linspace(n - 1, match_indices.v)
  ELSE match_indices.v

\* the subscripts the loop body evaluates for position i are all in range
GuideInRange(d, xts, yts, i) ==
  /\ InRange(d.index1, i)
  /\ InRange(xts, PyAt(d.index1, i))
  /\ InRange(d.index2, i)
  /\ InRange(yts, PyAt(d.index2, i))

\* one element of col
GuideSegmentAddOffset(d, xts, yts, offset, i) ==
  << <<PyAt(d.index1, i), PyAt(xts, PyAt(d.index1, i))>>,
     <<PyAt(d.index2, i), offset + PyAt(yts, PyAt(d.index2, i))>> >>
GuideSegment(d, xts, yts, offset, i) ==
  << <<PyAt(d.index1, i), PyAt(xts, PyAt(d.index1, i))>>,
     <<PyAt(d.index2, i), (-offset) + PyAt(yts, PyAt(d.index2, i))>> >>

\* the body of dtwPlotTwoWay, in the order of the code
TwoWay(d, kw) ==
  LET r == ResolveSeries(d, Param(kw, "xts", None), Param(kw, "yts", None))
      offset == Param(kw, "offset", IntV(0)).v
      match_indices == Param(kw, "match_indices", None)
  IN IF r.raised THEN [outcome |-> MissingSeries, fig |-> NoFig]
     ELSE
     LET xts == r.xts.v
         yts == r.yts.v
         times == Arange(Max2(Len(xts), Len(yts)))
         ax2 == SecondaryAxis(offset)
         f0 == IF ax2 = "ax" THEN Subplots ELSE Twinx(Subplots)
     IN IF Len(times) # Len(xts)
        THEN [outcome |-> Raised("ValueError", "x and y must have same first dimension"),
              fig |-> f0]
        ELSE IF Len(times) # Len(yts)
        THEN [outcome |-> Raised("ValueError", "x and y must have same first dimension"),
              fig |-> Plot(f0, "ax", times, xts)]
        ELSE
        LET f2 == Plot(Plot(f0, "ax", times, xts), ax2, times, yts)
            f3 == ShiftLimits(f2, ax2, offset)
            idx == GuideIndices(match_indices, Len(d.index1))
        IN IF \E k \in 1..Len(idx) : ~GuideInRange(d, xts, yts, idx[k])
           THEN [outcome |-> Raised("IndexError", "index out of range"), fig |-> f3]
           ELSE [outcome |-> Returned(AxesPair("ax", ax2)),
                 fig |-> Show(AddCollection(f3,
                           [k \in 1..Len(idx) |-> GuideSegment(d, xts, yts, offset, idx[k])]))]

\* the body of dtwPlotThreeWay: the series are resolved and nothing else follows
ThreeWay(d, kw) ==
  LET r == ResolveSeries(d, Param(kw, "xts", None), Param(kw, "yts", None))
  IN IF r.raised THEN [outcome |-> MissingSeries, fig |-> NoFig]
     ELSE [outcome |-> Returned(None), fig |-> NoFig]

\* the body of dtwPlotAlignment: the remaining keywords go to ax.plot, which
\* rejects a keyword that is no line property
Alignment(d, kw) ==
  IF \E k \in DOMAIN kw : kw[k].tag # "unset"
  THEN [outcome |-> Raised("AttributeError", "unexpected keyword argument"),
        fig |-> Subplots]
  ELSE [outcome |-> Returned([tag |-> "axes", v |-> <<"ax">>]),
        fig |-> Show(Plot(Subplots, "ax", d.index1, d.index2))]

----------------------------------------------------------------------------
(* dtwPlot: the dispatcher *)

\* the functions the module defines
ModuleFunctions == {"dtwPlot", "dtwPlotAlignment", "dtwPlotTwoWay", "dtwPlotThreeWay"}

\* the if/elif chain: the name called for a type, "none" when no branch is taken
DispatchTargetAbbreviated(t) ==
  IF t \in {"alignment", "align"} THEN "dtwPlotAlignment"
  ELSE IF t \in {"twoway", "two"} THEN "dtwPlotTwoWay"
  ELSE IF t \in {"threeway", "three"} THEN "dtwPlotThreeWay"
  ELSE IF t \in {"density", "dens"} THEN "dtwPlotDensity"
  ELSE "none"

DispatchTarget(t) ==
  IF t = "alignment" THEN "dtwPlotAlignment"
  ELSE IF t = "twoway" THEN "dtwPlotTwoWay"
  ELSE IF t = "threeway" THEN "dtwPlotThreeWay"
  ELSE IF t = "density" THEN "dtwPlotDensity"
  ELSE "none"

Render(name, d, kw) ==
  IF name = "dtwPlotAlignment" THEN Alignment(d, kw)
  ELSE IF name = "dtwPlotTwoWay" THEN TwoWay(d, kw)
  ELSE ThreeWay(d, kw)

\* the body of dtwPlot: the renderer's return value is dropped, its exception
\* propagates, and a name the module does not define raises NameError
Dispatch(d, t, kw) ==
  LET target == DispatchTarget(t)
  IN IF target = "none"
     THEN [invoked |-> <<>>, outcome |-> Returned(None), fig |-> NoFig]
     ELSE IF target \notin ModuleFunctions
     THEN [invoked |-> <<>>,
           outcome |-> Raised("NameError", "name is not defined"),
           fig |-> NoFig]
     ELSE LET r == Render(target, d, kw)
          IN [invoked |-> <<[renderer |-> target, d |-> d, kwargs |-> kw]>>,
              outcome |-> IF r.outcome.kind = "raise" THEN r.outcome
                          ELSE Returned(None),
              fig |-> r.fig]

----------------------------------------------------------------------------
(* The arguments of a call *)

\* the sample values of the series; the four differ so that the source of a
\* plotted series shows
StoredQuery(n) == [i \in 1..n |-> i]
StoredReference(m) == [i \in 1..m |-> m + 1 - i]
CallerQuery(n) == [i \in 1..n |-> 0 - i]
CallerReference(m) == [i \in 1..m |-> 2 * i]

\* a warping path between series of n and m samples: from (0,0) to (n-1,m-1),
\* advancing the query and the reference in turn, then the longer one alone
PathIndex1(n, m) ==
  [k \in 1..(n + m - 1) |->
     IF k - 1 < 2 * (Min2(n, m) - 1) THEN k \div 2
     ELSE IF n >= m THEN (k - 1) - (m - 1) ELSE n - 1]
PathIndex2(n, m) ==
  [k \in 1..(n + m - 1) |->
     IF k - 1 < 2 * (Min2(n, m) - 1) THEN (k - 1) \div 2
     ELSE IF n >= m THEN m - 1 ELSE (k - 1) - (n - 1)]

\* the object dtw() returns; query and reference are there only if kept
DtwResult(n, m, keepQuery, keepReference) ==
  [index1 |-> PathIndex1(n, m), index2 |-> PathIndex2(n, m),
   query |-> IF keepQuery THEN ListV(StoredQuery(n)) ELSE Missing,
   reference |-> IF keepReference THEN ListV(StoredReference(m)) ELSE Missing]

Results ==
  {DtwResult(n, m, kq, kr) : n \in 1..MaxLen, m \in 1..MaxLen,
                             kq \in BOOLEAN, kr \in BOOLEAN}

Types ==
  {"alignment", "twoway", "threeway", "density",
   "Alignment", "align", "two", "three", ""}

XtsArgs == {Unset} \cup {ListV(CallerQuery(n)) : n \in 1..MaxLen}
YtsArgs == {Unset} \cup {ListV(CallerReference(m)) : m \in 1..MaxLen}
OffsetArgs == {IntV(k) : k \in (0 - MaxOff)..MaxOff}

\* explicit guide positions: none, one or two of the first MaxLen positions
Positions == 0..(MaxLen - 1)
MatchLists ==
  {<<>>} \cup {<<a>> : a \in Positions}
         \cup {<<a, b>> : a \in Positions, b \in Positions}
MatchArgs ==
  {None} \cup {IntV(c) : c \in 0..MaxCount} \cup {ListV(s) : s \in MatchLists}

NoKwargs ==
  [xts |-> Unset, yts |-> Unset, offset |-> Unset, match_indices |-> Unset]

----------------------------------------------------------------------------
(* The calls *)

Init ==
  /\ pc = "call"
  /\ invoked = <<>>
  /\ outcome = Pending
  /\ fig = NoFig
  /\ x \in Results
  /\ \/ /\ fn = "dtwPlot"
        /\ type \in Types
        /\ \E o \in OffsetArgs \cup {Unset}, mi \in MatchArgs \cup {Unset} :
             kwargs = [NoKwargs EXCEPT !.offset = o, !.match_indices = mi]
     \/ /\ fn = "dtwPlotAlignment"
        /\ type = ""
        /\ kwargs = NoKwargs
     \/ /\ fn = "dtwPlotTwoWay"
        /\ type = ""
        /\ \E xs \in XtsArgs, ys \in YtsArgs, o \in OffsetArgs, mi \in MatchArgs :
             kwargs = [xts |-> xs, yts |-> ys, offset |-> o, match_indices |-> mi]
     \/ /\ fn = "dtwPlotThreeWay"
        /\ type = ""
        /\ \E xs \in XtsArgs, ys \in YtsArgs :
             kwargs = [NoKwargs EXCEPT !.xts = xs, !.yts = ys]

Finish(r, inv) ==
  /\ pc' = "done"
  /\ invoked' = inv
  /\ outcome' = r.outcome
  /\ fig' = r.fig
  /\ UNCHANGED <<fn, x, type, kwargs>>

DtwPlot ==
  /\ pc = "call"
  /\ fn = "dtwPlot"
  /\ LET r == Dispatch(x, type, kwargs) IN Finish(r, r.invoked)

DtwPlotAlignment ==
  /\ pc = "call"
  /\ fn = "dtwPlotAlignment"
  /\ Finish(Alignment(x, kwargs), <<>>)

DtwPlotTwoWay ==
  /\ pc = "call"
  /\ fn = "dtwPlotTwoWay"
  /\ Finish(TwoWay(x, kwargs), <<>>)

DtwPlotThreeWay ==
  /\ pc = "call"
  /\ fn = "dtwPlotThreeWay"
  /\ Finish(ThreeWay(x, kwargs), <<>>)

Next ==
  \/ DtwPlot
  \/ DtwPlotAlignment
  \/ DtwPlotTwoWay
  \/ DtwPlotThreeWay

Spec == Init /\ [][Next]_vars

----------------------------------------------------------------------------
(* Properties *)

Done(f) == pc = "done" /\ fn = f

\* the arguments as the renderer binds them
OffsetArg == Param(kwargs, "offset", IntV(0)).v
MatchArg == Param(kwargs, "match_indices", None)
PathLen == Len(x.index1)

\* dtwPlotTwoWay got as far as adding the guide collection, called directly
\* or through dtwPlot
GuidesDrawn == pc = "done" /\ fig.collections = 1

\* the path position a guide segment is anchored at (the path never repeats
\* an index pair)
PositionOf(seg) ==
  CHOOSE p \in 0..(PathLen - 1) :
    PyAt(x.index1, p) = seg[1][1] /\ PyAt(x.index2, p) = seg[2][1]

Invocation(name) == [renderer |-> name, d |-> x, kwargs |-> kwargs]

C2_MissingSeriesRaises ==
  /\ pc = "done"
  /\ fn \in {"dtwPlotTwoWay", "dtwPlotThreeWay"}
  /\ kwargs.xts.tag = "unset"
  /\ kwargs.yts.tag = "unset"
  /\ (x.query.tag = "missing" \/ x.reference.tag = "missing")
  => /\ outcome.kind = "raise"
     /\ outcome.value.type = "ValueError"
     /\ outcome.value.msg = "Original timeseries are required"
     /\ ~fig.created

C2_Witness ==
  /\ Done("dtwPlotTwoWay")
  /\ kwargs.xts.tag = "unset"
  /\ kwargs.yts.tag = "unset"
  /\ x.query.tag = "list"
  /\ x.reference.tag = "missing"
  /\ outcome.kind = "raise"

\* C3: once both series are plotted, a positive offset k lowers the primary
\* lower limit by k and raises the secondary upper limit by k, a negative one
\* raises the primary upper limit by |k| and lowers the secondary lower limit
\* by |k|, the other limits staying at their autoscaled values; offset 0
\* changes no limit.
C3_OffsetShiftsLimits ==
  (pc = "done" /\ fn = "dtwPlotTwoWay" /\ Len(fig.lines) = 2) =>
    LET k == OffsetArg
        q == DataLim(fig, "ax")
        r == DataLim(fig, fig.lines[2].axes)
        primary == fig.ylim["ax"]
        secondary == fig.ylim[fig.lines[2].axes]
    IN /\ k > 0 => /\ primary = <<q[1] - k, q[2]>>
                   /\ secondary = <<r[1], r[2] + k>>
       /\ k < 0 => /\ primary = <<q[1], q[2] + (0 - k)>>
                   /\ secondary = <<r[1] - (0 - k), r[2]>>
       /\ k = 0 => /\ primary = q
                   /\ secondary = r

C3_Witness ==
  /\ Done("dtwPlotTwoWay")
  /\ OffsetArg = 2
  /\ Len(fig.lines) = 2
  /\ fig.ylim["ax"] = <<DataLim(fig, "ax")[1] - 2, DataLim(fig, "ax")[2]>>
  /\ outcome.kind = "return"

GuidePositions == [k \in 1..Len(fig.segments) |-> PositionOf(fig.segments[k])]

\* evenly spaced after truncation: in order, and no two steps between
\* neighbours differ by more than one
EvenlySpaced(pos) ==
  /\ \A k \in 1..(Len(pos) - 1) : pos[k] <= pos[k + 1]
  /\ \A j \in 1..(Len(pos) - 1), k \in 1..(Len(pos) - 1) :
       (pos[j + 1] - pos[j]) - (pos[k + 1] - pos[k]) \in {0 - 1, 0, 1}

\* C6 as stated: a count c >= 1 gives exactly c guide positions, evenly
\* spaced, all on the path, the first position 0 and the last the final path
\* position.
C6_CountGuidesSpanPath ==
  (GuidesDrawn /\ MatchArg.tag = "int" /\ MatchArg.v >= 1) =>
    /\ Len(fig.segments) = MatchArg.v
    /\ \A k \in 1..Len(fig.segments) : GuidePositions[k] \in 0..(PathLen - 1)
    /\ EvenlySpaced(GuidePositions)
    /\ GuidePositions[1] = 0
    /\ GuidePositions[Len(fig.segments)] = PathLen - 1

\* C6 amended: a count c >= 1 gives exactly c guide positions, evenly spaced,
\* all on the path, the first position 0; the last is the final path position
\* when c >= 2, and for c = 1 the only position is 0.
C6_CountGuides ==
  (GuidesDrawn /\ MatchArg.tag = "int" /\ MatchArg.v >= 1) =>
    /\ Len(fig.segments) = MatchArg.v
    /\ \A k \in 1..Len(fig.segments) : GuidePositions[k] \in 0..(PathLen - 1)
    /\ EvenlySpaced(GuidePositions)
    /\ GuidePositions[1] = 0
    /\ MatchArg.v >= 2 => GuidePositions[Len(fig.segments)] = PathLen - 1

C6_Witness ==
  /\ GuidesDrawn
  /\ MatchArg = IntV(3)
  /\ PathLen = 6
  /\ GuidePositions = <<0, 2, 5>>

\* C7 as stated: with match_indices not given, exactly one guide is drawn.
C7_DefaultSingleGuide ==
  (GuidesDrawn /\ MatchArg.tag = "None") => Len(fig.segments) = 1

\* C7 amended: with match_indices not given, exactly 50 guides are drawn
\* (linspace's default count), at evenly spaced truncated positions from 0 to
\* the final path position, repeated where the path is shorter than 50.
C7_DefaultFiftyGuides ==
  (GuidesDrawn /\ MatchArg.tag = "None") =>
    /\ Len(fig.segments) = LinspaceDefaultNum
    /\ \A k \in 1..Len(fig.segments) : GuidePositions[k] \in 0..(PathLen - 1)
    /\ EvenlySpaced(GuidePositions)
    /\ GuidePositions[1] = 0
    /\ GuidePositions[Len(fig.segments)] = PathLen - 1

C7_Witness ==
  /\ GuidesDrawn
  /\ fn = "dtwPlotTwoWay"
  /\ kwargs.match_indices.tag = "None"
  /\ PathLen = 3
  /\ Len(fig.segments) = 50
  /\ GuidePositions[25] = 0
  /\ GuidePositions[26] = 1

\* C8: dtwPlot with type "density" invokes a density renderer and completes
\* without raising.
C8_DensityRenders ==
  (Done("dtwPlot") /\ type = "density") =>
    /\ Len(invoked) = 1
    /\ outcome.kind = "return"

\* C9: whatever the lengths of the two series, once they are resolved both are
\* plotted against the positions 0..max(len)-1 and the call goes on to the
\* guides.
C9_AnyLengthsPlotted ==
  (Done("dtwPlotTwoWay") /\ fig.created) =>
    /\ Len(fig.lines) = 2
    /\ \A i \in 1..2 :
         fig.lines[i].x = Arange(Max2(Len(fig.lines[1].y), Len(fig.lines[2].y)))
    /\ outcome.kind = "raise" => outcome.value.type = "IndexError"

\* C10: a series the caller passes is the one plotted; the stored series of
\* the result stands in only for a series the caller did not pass.
C10_PassedSeriesUsed ==
  (Done("dtwPlotTwoWay") /\ Len(fig.lines) >= 1) =>
    /\ kwargs.xts.tag = "list" => fig.lines[1].y = kwargs.xts.v
    /\ (kwargs.yts.tag = "list" /\ Len(fig.lines) = 2) =>
         fig.lines[2].y = kwargs.yts.v

====
